---- MODULE Spec2Model ----
(***************************************************************************)
(* The token-stream parser of wyst (src/src/parser.rs): Parser::new and    *)
(* Parser::parse.  One action per arm of the dispatch chain of the main    *)
(* loop; each action is one whole pass through the loop body (dispatch,    *)
(* capture, symbol-table registration, cursor advance, push of the node).  *)
(*                                                                         *)
(* Strings are sequences of one-character strings, so that concatenation   *)
(* (the generic-type rule) and the two include patterns are computed, not  *)
(* looked up.  The cursor `index` is 0-based as in the source; Tok(k) is   *)
(* the source's self.tokens[k].                                            *)
(***************************************************************************)
EXTENDS Integers, Sequences, FiniteSets, TLC

VARIABLES tokens, index, json, variables, full_ast, pc, again

vars == <<tokens, index, json, variables, full_ast, pc, again>>

(* ------------------------------ bounds --------------------------------- *)

\* longest token buffer drawn from the whole Alphabet
MaxLen == 3

\* longest token buffer drawn from DeclAlphabet, the tokens of declarations
MaxDeclLen == 5

\* longest text after the optional "#include" prefix of an Include token
MaxTail == 4

(* ------------------------------ strings -------------------------------- *)

S_empty == << >>
S_amp == <<"&">>
S_star == <<"*">>
S_colon == <<":">>
S_lt == <<"<">>
S_gt == <<">">>
S_struct == <<"s", "t", "r", "u", "c", "t">>
S_namespace == <<"n", "a", "m", "e", "s", "p", "a", "c", "e">>
S_impl == <<"i", "m", "p", "l">>
S_void == <<"v", "o", "i", "d">>
S_cb == <<"c", "b">>
S_int == <<"i", "n", "t">>
S_if == <<"i", "f">>
S_else == <<"e", "l", "s", "e">>
S_include == <<"#", "i", "n", "c", "l", "u", "d", "e">>

(* ------------------------------ tokens --------------------------------- *)

\* lexer::TokenType, as far as the parser tests it
TokenTypes ==
    {"Identifier", "Keyword", "Keyword1", "Keyword2", "Curly", "Round", "Square",
     "Angle", "Include", "StaticExecution", "Comment", "String"}

\* lexer::Token
Token(ty, val, ln, col) == [token_type |-> ty, value |-> val, line |-> ln, column |-> col]

\* AstType variants
AstTypes ==
    {"Ref", "FunctionDeceleration", "StructDeceleration", "StructCall", "StructVar",
     "VoidFunctionDeceleration", "Namespace", "VariableDeceleration",
     "PointerDeceleration", "MutVariableDeceleration", "State3", "State2", "Include",
     "IncludeLocal", "CodeBlock", "Json", "Impl", "StaticExecution", "Other"}

\* struct Ast
Ast(toks, ty) == [tokens |-> toks, ast_type |-> ty]

\* pub fn is_decl
is_decl(ast) ==
    \/ ast.ast_type = "FunctionDeceleration"
    \/ ast.ast_type = "VoidFunctionDeceleration"
    \/ ast.ast_type = "Namespace"
    \/ ast.ast_type = "VariableDeceleration"
    \/ ast.ast_type = "PointerDeceleration"
    \/ ast.ast_type = "MutVariableDeceleration"
    \/ ast.ast_type = "StructDeceleration"

\* self.tokens[k], k counted from 0
Tok(k) == tokens[k + 1]

\* self.tokens.len()
NTok == Len(tokens)

(* ------------------------- include patterns ---------------------------- *)

HasPrefix(v, p) == Len(v) >= Len(p) /\ SubSeq(v, 1, Len(p)) = p

\* " *": the first position at or after i that holds no space
RECURSIVE SkipSpaces(_, _)
SkipSpaces(v, i) ==
    IF i <= Len(v) /\ v[i] = " " THEN SkipSpaces(v, i + 1) ELSE i

\* FindClose with the greedy "(.*)c": the last c on the line that starts at i
RECURSIVE FindCloseGreedy(_, _, _)
FindCloseGreedy(v, i, c) ==
    IF i > Len(v) \/ v[i] = "\n" THEN 0
    ELSE LET later == FindCloseGreedy(v, i + 1, c) IN
         IF later # 0 THEN later ELSE IF v[i] = c THEN i ELSE 0

\* "(.*?)c": the first c at or after i with no line break before it, 0 if none
\* ("." does not match a line break)
RECURSIVE FindClose(_, _, _)
FindClose(v, i, c) ==
    IF i > Len(v) THEN 0
    ELSE IF v[i] = c THEN i
    ELSE IF v[i] = "\n" THEN 0
    ELSE FindClose(v, i + 1, c)

\* Regex::captures for ^(#include *)open(.*?)close ; path is caps[2]
Captures(v, open, close) ==
    IF ~HasPrefix(v, S_include) THEN [ok |-> FALSE, path |-> S_empty]
    ELSE LET s == SkipSpaces(v, Len(S_include) + 1) IN
         IF s > Len(v) \/ v[s] # open THEN [ok |-> FALSE, path |-> S_empty]
         ELSE LET c == FindClose(v, s + 1, close) IN
              IF c = 0 THEN [ok |-> FALSE, path |-> S_empty]
              ELSE [ok |-> TRUE, path |-> SubSeq(v, s + 1, c - 1)]

\* include_regex: ^(#include *)<(.*?)>
include_regex(v) == Captures(v, "<", ">")

\* include_regex_local: ^(#include *)"(.*?)"
include_regex_local(v) == Captures(v, "\"", "\"")

\* the TokenType::Include arm: the node built from the token at the cursor
IncludeNode(token) ==
    IF include_regex(token.value).ok
    THEN Ast(<<Token("String", include_regex(token.value).path, 0, 0)>>, "Include")
    ELSE IF include_regex_local(token.value).ok
    THEN Ast(<<Token("String", include_regex_local(token.value).path, 0, 0)>>,
             "IncludeLocal")
    ELSE Ast(<<token>>, "Include")

(* --------------------------- symbol table ------------------------------ *)

\* Variables::new_struct / new_namespace / new_func / new_var: one record appended
Register(kind, name, ln, col, desc) ==
    Append(variables,
           [kind |-> kind, name |-> name, line |-> ln, column |-> col, desc |-> desc])

\* Desc without the test for a Comment: any preceding token's text becomes the doc
DescAnyPreceding(i) ==
    IF i > 0 THEN Tok(i - 1).value ELSE S_empty

\* the doc string of a declaration whose rule is anchored at i
Desc(i) ==
    IF i > 0 /\ Tok(i - 1).token_type = "Comment" THEN Tok(i - 1).value ELSE S_empty

(* --------------------------- dispatch chain ---------------------------- *)

JsonCond ==
    json /\ NTok - index > 2 /\ Tok(index + 1).value = S_colon

RefCond ==
    /\ NTok - index > 1
    /\ Tok(index).value = S_amp
    /\ Tok(index + 1).token_type = "Identifier"

\* "struct" / "namespace" / "impl" Identifier Curly
WordCond(word) ==
    /\ NTok - index > 2
    /\ Tok(index).value = word
    /\ Tok(index + 1).token_type = "Identifier"
    /\ Tok(index + 2).token_type = "Curly"

State3Cond ==
    /\ NTok - index > 2
    /\ Tok(index).token_type = "Keyword1"
    /\ Tok(index + 1).token_type = "Round"
    /\ Tok(index + 2).token_type = "Curly"

State2Cond ==
    /\ NTok - index > 1
    /\ Tok(index).token_type = "Keyword2"
    /\ Tok(index + 1).token_type = "Curly"

FunctionCond ==
    /\ NTok - index > 3
    /\ Tok(index + 1).token_type = "Identifier"
    /\ Tok(index + 2).token_type = "Round"
    /\ Tok(index + 3).token_type = "Curly"

StructCallCond ==
    NTok - index > 1 /\ Tok(index + 1).token_type = "Curly"

StructVarCond ==
    /\ NTok - index > 2
    /\ Tok(index + 1).token_type = "Identifier"
    /\ Tok(index + 2).token_type = "Curly"

\* VariableCond with the lookahead window one token too long
VariableCondStrict ==
    NTok - index > 2 /\ Tok(index + 1).token_type = "Identifier"

VariableCond ==
    NTok - index > 1 /\ Tok(index + 1).token_type = "Identifier"

GenericCond ==
    /\ NTok - index > 2
    /\ Tok(index + 2).token_type = "Identifier"
    /\ Tok(index + 1).token_type = "Angle"

PointerCond ==
    /\ NTok - index > 2
    /\ Tok(index + 1).value = S_star
    /\ Tok(index + 2).token_type = "Identifier"

\* the arm of `match token.token_type` for an Identifier at the cursor
IdentifierArm ==
    IF FunctionCond THEN "Function"
    ELSE IF StructCallCond THEN "StructCall"
    ELSE IF StructVarCond THEN "StructVar"
    ELSE IF NTok - index > 1
    THEN IF VariableCond THEN "Variable"
         ELSE IF GenericCond THEN "Generic"
         ELSE IF PointerCond THEN "Pointer"
         ELSE "IdentifierOther"
    ELSE "IdentifierOther"

\* the Keyword arm; self.tokens[index + 1] is read unguarded once the value is "cb"
KeywordArm ==
    IF Tok(index).value = S_cb
    THEN IF index + 1 >= NTok THEN "PanicKeyword"
         ELSE IF Tok(index + 1).token_type = "Curly" THEN "CodeBlock"
         ELSE "KeywordOther"
    ELSE "KeywordOther"

\* the StaticExecution arm; self.tokens[index + 1] is read unguarded
StaticExecutionArm ==
    IF index + 1 >= NTok THEN "PanicStaticExecution"
    ELSE IF Tok(index + 1).token_type = "Square" THEN "StaticExecution"
    ELSE "StaticExecutionEmpty"

\* the if / else-if chain and the match of one loop pass: the arm that runs
Arm ==
    IF JsonCond THEN "Json"
    ELSE IF RefCond THEN "Ref"
    ELSE IF WordCond(S_struct) THEN "Struct"
    ELSE IF WordCond(S_namespace) THEN "Namespace"
    ELSE IF WordCond(S_impl) THEN "Impl"
    ELSE IF State3Cond THEN "State3"
    ELSE IF State2Cond THEN "State2"
    ELSE IF Tok(index).token_type = "Identifier" THEN IdentifierArm
    ELSE IF Tok(index).token_type = "Include" THEN "Include"
    ELSE IF Tok(index).token_type = "Keyword" THEN KeywordArm
    ELSE IF Tok(index).token_type = "StaticExecution" THEN StaticExecutionArm
    ELSE "Other"

\* the loop guard (and the body's unreachable cursor-at-end check)
InLoop == pc = "loop" /\ NTok > index

\* Finish without the closing `self.index += 1`
FinishNoStep(ast_res, adv) ==
    /\ index' = index + adv
    /\ full_ast' = Append(full_ast, ast_res)
    /\ UNCHANGED <<tokens, json, pc, again>>

\* the arm's own `self.index += adv`, then `self.index += 1; full_ast.push(ast_res)`
Finish(ast_res, adv) ==
    /\ index' = index + adv + 1
    /\ full_ast' = Append(full_ast, ast_res)
    /\ UNCHANGED <<tokens, json, pc, again>>

\* the token the registration is named after: self.tokens[index + 1]
NameTok == Tok(index + 1)

\* self.variables.new_*(self.tokens[index + 1].value, LexerState{..}, desc)
Declare(kind) ==
    variables' = Register(kind, NameTok.value, NameTok.line, NameTok.column, Desc(index))

(* ------------------------------ actions -------------------------------- *)

\* FunctionTokens without the first push of the token at the cursor
FunctionTokensNoType == <<Tok(index + 1), Tok(index + 2), Tok(index + 3)>>

\* tokens captured by the function rule: the type, the name, the parameters, the body
FunctionTokens == <<Tok(index), Tok(index + 1), Tok(index + 2), Tok(index + 3)>>

\* ast_res.tokens[0].value += "<"; += tokens[index + 1].value; += ">"
GenericType ==
    [Tok(index) EXCEPT !.value = @ \o S_lt \o Tok(index + 1).value \o S_gt]

RuleJson ==
    /\ InLoop /\ Arm = "Json"
    /\ Finish(Ast(<<Tok(index), Tok(index + 2)>>, "Json"), 2)
    /\ UNCHANGED variables

RuleRef ==
    /\ InLoop /\ Arm = "Ref"
    /\ Finish(Ast(<<Tok(index + 1)>>, "Ref"), 1)
    /\ UNCHANGED variables

RuleStruct ==
    /\ InLoop /\ Arm = "Struct"
    /\ Finish(Ast(<<Tok(index + 1), Tok(index + 2)>>, "StructDeceleration"), 2)
    /\ Declare("struct")

RuleNamespace ==
    /\ InLoop /\ Arm = "Namespace"
    /\ Finish(Ast(<<Tok(index + 1), Tok(index + 2)>>, "Namespace"), 2)
    /\ Declare("namespace")

RuleImpl ==
    /\ InLoop /\ Arm = "Impl"
    /\ Finish(Ast(<<Tok(index + 1), Tok(index + 2)>>, "Impl"), 2)
    /\ UNCHANGED variables

RuleState3 ==
    /\ InLoop /\ Arm = "State3"
    /\ Finish(Ast(<<Tok(index), Tok(index + 1), Tok(index + 2)>>, "State3"), 2)
    /\ UNCHANGED variables

RuleState2 ==
    /\ InLoop /\ Arm = "State2"
    /\ Finish(Ast(<<Tok(index), Tok(index + 1)>>, "State2"), 1)
    /\ UNCHANGED variables

RuleFunction ==
    /\ InLoop /\ Arm = "Function"
    /\ Finish(Ast(FunctionTokens,
                  IF Tok(index).value = S_void THEN "VoidFunctionDeceleration"
                  ELSE "FunctionDeceleration"), 3)
    /\ Declare("func")

RuleStructCall ==
    /\ InLoop /\ Arm = "StructCall"
    /\ Finish(Ast(<<Tok(index), Tok(index + 1)>>, "StructCall"), 1)
    /\ UNCHANGED variables

RuleStructVar ==
    /\ InLoop /\ Arm = "StructVar"
    /\ Finish(Ast(<<Tok(index), Tok(index + 1), Tok(index + 2)>>, "StructVar"), 2)
    /\ Declare("var")

RuleVariable ==
    /\ InLoop /\ Arm = "Variable"
    /\ Finish(Ast(<<Tok(index), Tok(index + 1)>>, "VariableDeceleration"), 1)
    /\ Declare("var")

RuleGeneric ==
    /\ InLoop /\ Arm = "Generic"
    /\ Finish(Ast(<<GenericType, Tok(index + 2)>>, "VariableDeceleration"), 2)
    /\ Declare("var")

RulePointer ==
    /\ InLoop /\ Arm = "Pointer"
    /\ Finish(Ast(<<Tok(index), Tok(index + 2)>>, "PointerDeceleration"), 2)
    /\ Declare("var")

\* an Identifier no sub-rule recognises: the node keeps the token pushed first
RuleIdentifierOther ==
    /\ InLoop /\ Arm = "IdentifierOther"
    /\ Finish(Ast(<<Tok(index)>>, "Other"), 0)
    /\ UNCHANGED variables

RuleInclude ==
    /\ InLoop /\ Arm = "Include"
    /\ Finish(IncludeNode(Tok(index)), 0)
    /\ UNCHANGED variables

RuleCodeBlock ==
    /\ InLoop /\ Arm = "CodeBlock"
    /\ Finish(Ast(<<Tok(index + 1)>>, "CodeBlock"), 1)
    /\ UNCHANGED variables

RuleKeywordOther ==
    /\ InLoop /\ Arm = "KeywordOther"
    /\ Finish(Ast(<<Tok(index)>>, "Other"), 0)
    /\ UNCHANGED variables

\* StaticExecution Square: the Square token is captured, the cursor moves by 1 only
RuleStaticExecution ==
    /\ InLoop /\ Arm = "StaticExecution"
    /\ Finish(Ast(<<Tok(index + 1)>>, "StaticExecution"), 0)
    /\ UNCHANGED variables

\* StaticExecution followed by anything else: nothing is pushed into ast_res
RuleStaticExecutionEmpty ==
    /\ InLoop /\ Arm = "StaticExecutionEmpty"
    /\ Finish(Ast(<< >>, "Other"), 0)
    /\ UNCHANGED variables

RuleOther ==
    /\ InLoop /\ Arm = "Other"
    /\ Finish(Ast(<<Tok(index)>>, "Other"), 0)
    /\ UNCHANGED variables

\* self.tokens[index + 1] with index + 1 = len: the index panics, parse unwinds
Panic ==
    /\ InLoop /\ Arm \in {"PanicKeyword", "PanicStaticExecution"}
    /\ pc' = "aborted"
    /\ UNCHANGED <<tokens, index, json, variables, full_ast, again>>

\* the loop guard fails: parse returns full_ast
Return ==
    /\ pc = "loop" /\ ~(NTok > index)
    /\ pc' = "returned"
    /\ UNCHANGED <<tokens, index, json, variables, full_ast, again>>

\* parse called on a parser whose parse has returned, but with the cursor put back
\* to the start of the buffer first
ParseAgainRewind ==
    /\ pc = "returned"
    /\ pc' = "loop"
    /\ full_ast' = << >>
    /\ index' = 0
    /\ again' = TRUE
    /\ UNCHANGED <<tokens, json, variables>>

\* parse called on a parser whose parse has returned: a fresh full_ast, the fields of
\* the parser as the earlier call left them (`again` records that this is a later call)
ParseAgain ==
    /\ pc = "returned"
    /\ pc' = "loop"
    /\ full_ast' = << >>
    /\ again' = TRUE
    /\ UNCHANGED <<tokens, index, json, variables>>

(* --------------------------- specifications ---------------------------- *)

\* the (type, value) pairs token buffers are drawn from
Alphabet ==
    {<<"Identifier", S_int>>, <<"Identifier", S_void>>, <<"Identifier", S_amp>>,
     <<"Identifier", S_struct>>, <<"Keyword", S_namespace>>, <<"Keyword", S_impl>>,
     <<"Keyword", S_cb>>, <<"Keyword", S_star>>, <<"Keyword", S_colon>>,
     <<"Keyword1", S_if>>, <<"Keyword2", S_else>>,
     <<"Round", <<"(", ")">> >>, <<"Curly", <<"{", "}">> >>, <<"Square", <<"[", "]">> >>,
     <<"Angle", S_int>>, <<"Include", S_include \o <<" ", "<", "a", ">">> >>,
     <<"StaticExecution", <<"@">> >>, <<"Comment", <<"/", "/", "d">> >>}

\* the tokens declarations are written with
DeclAlphabet ==
    {<<"Identifier", S_int>>, <<"Identifier", S_void>>,
     <<"Round", <<"(", ")">> >>, <<"Curly", <<"{", "}">> >>,
     <<"Comment", <<"/", "/", "d">> >>}

\* the k-th token of a buffer: its position in the text follows its place
LineOf(k) == 1 + ((k - 1) \div 2)

Buffer(f) == [k \in DOMAIN f |-> Token(f[k][1], f[k][2], LineOf(k), k)]

\* Parser::new(tokens, variables): cursor 0, JSON mode off, nothing parsed yet
New(toks) ==
    /\ tokens = toks
    /\ index = 0
    /\ variables = << >>
    /\ full_ast = << >>
    /\ pc = "loop"
    /\ again = FALSE

\* Parser::new, then the pub field json set or left false.  Short buffers over every
\* token kind in either mode; longer buffers over the declaration tokens, where no
\* token has the value ":" and the mode cannot matter.
Init ==
    \/ /\ \E n \in 0..MaxLen : \E f \in [1..n -> Alphabet] : New(Buffer(f))
       /\ json \in BOOLEAN
    \/ /\ \E n \in 0..MaxDeclLen : \E f \in [1..n -> DeclAlphabet] : New(Buffer(f))
       /\ json = FALSE

Next ==
    \/ RuleJson
    \/ RuleRef
    \/ RuleStruct
    \/ RuleNamespace
    \/ RuleImpl
    \/ RuleState3
    \/ RuleState2
    \/ RuleFunction
    \/ RuleStructCall
    \/ RuleStructVar
    \/ RuleVariable
    \/ RuleGeneric
    \/ RulePointer
    \/ RuleIdentifierOther
    \/ RuleInclude
    \/ RuleCodeBlock
    \/ RuleKeywordOther
    \/ RuleStaticExecution
    \/ RuleStaticExecutionEmpty
    \/ RuleOther
    \/ Panic
    \/ Return

Spec == Init /\ [][Next]_vars

\* the shape of the parser's state
TypeOK ==
    /\ \A k \in 1..Len(tokens) : tokens[k].token_type \in TokenTypes
    /\ index \in 0..Len(tokens)
    /\ json \in BOOLEAN
    /\ \A k \in 1..Len(full_ast) : full_ast[k].ast_type \in AstTypes
    /\ \A k \in 1..Len(variables) :
          variables[k].kind \in {"struct", "namespace", "func", "var"}
    /\ pc \in {"loop", "returned", "aborted"}
    /\ again \in BOOLEAN

\* one parser, parse called any number of times
NextAgain == Next \/ ParseAgain

SpecAgain == Init /\ [][NextAgain]_vars

(* Include tokens alone: the two include patterns on every short text *)

IncludeChars == {" ", "<", ">", "\"", "a", "\n"}

\* the texts of Include tokens: an optional "#include", then at most MaxTail characters
IncludeValues ==
    {p \o t : p \in {S_empty, S_include},
              t \in UNION {[1..m -> IncludeChars] : m \in 0..MaxTail}}

\* one Include token, alone or after an angle-form Include token; JSON mode off
InitInclude ==
    /\ \E v \in IncludeValues :
         \E lead \in {<< >>, <<<<"Include", S_include \o <<"<", "a", ">">> >>>>} :
            New(Buffer(lead \o <<<<"Include", v>>>>))
    /\ json = FALSE

NextInclude == RuleInclude \/ Return

SpecInclude == InitInclude /\ [][NextInclude]_vars

(* ------------------------------ claims --------------------------------- *)

\* a step that is one completed pass through the loop body
Passed == pc = "loop" /\ pc' = "loop" /\ Len(full_ast') = Len(full_ast) + 1

\* the node a completed pass appended
NewNode == full_ast'[Len(full_ast')]

\* the registration a pass made, when it made one
NewReg == variables'[Len(variables')]

\* a pass that made exactly one registration, of this kind, named after token t
RegistersOne(kind, t) ==
    /\ Len(variables') = Len(variables) + 1
    /\ SubSeq(variables', 1, Len(variables)) = variables
    /\ NewReg.kind = kind
    /\ NewReg.name = t.value
    /\ NewReg.line = t.line
    /\ NewReg.column = t.column

\* C1: parse never aborts, whatever the token buffer and the JSON mode.
ParseNeverAborts == pc # "aborted"

\* the token of a declaration node that carries the declared name
DeclaredName(node) ==
    IF node.ast_type \in {"StructDeceleration", "Namespace"}
    THEN node.tokens[1] ELSE node.tokens[2]

\* C2: when parse has returned, the registrations are, in order, exactly the
\* declared names (value, line, column) of the output nodes for which is_decl holds.
RegistrationsMatchDeclarations ==
    pc = "returned" =>
        LET decls == SelectSeq(full_ast, is_decl) IN
        /\ Len(variables) = Len(decls)
        /\ \A i \in 1..Len(decls) :
              /\ variables[i].name = DeclaredName(decls[i]).value
              /\ variables[i].line = DeclaredName(decls[i]).line
              /\ variables[i].column = DeclaredName(decls[i]).column

\* C3: after every pass the cursor is past every buffer token the new node captured
\* (a captured buffer token keeps its position; column k is buffer place k - 1).
CursorPassesCaptured ==
    [][Passed =>
         \A k \in 1..Len(NewNode.tokens) :
            NewNode.tokens[k].line # 0 => NewNode.tokens[k].column - 1 < index']_vars

\* C4: the cursor never decreases; a completed pass moves it forward by at least 1 and
\* appends exactly one node; there are never more nodes than tokens consumed, nor a
\* cursor past the end of the buffer.
CursorAdvances ==
    [][/\ index' >= index
       /\ (pc = "loop" /\ pc' = "loop") =>
              /\ index' > index
              /\ Len(full_ast') = Len(full_ast) + 1
              /\ SubSeq(full_ast', 1, Len(full_ast)) = full_ast
       /\ (pc' # "loop" \/ pc # "loop") => full_ast' = full_ast /\ index' = index
       /\ Len(full_ast') <= index'
       /\ index' <= Len(tokens')
       /\ Len(full_ast') <= Len(tokens')]_vars

\* a returned parse of several nodes, one of them spanning more than one token
CursorAdvancesWitness ==
    pc = "returned" /\ Len(full_ast) >= 2 /\ Len(full_ast) < NTok /\ index = NTok

\* the case of C5: JSON mode off, Identifier T (not "&"), Identifier N, Round, Curly
FunctionCase ==
    /\ pc = "loop" /\ ~json /\ NTok - index >= 4
    /\ Tok(index).token_type = "Identifier" /\ Tok(index).value # S_amp
    /\ Tok(index + 1).token_type = "Identifier"
    /\ Tok(index + 2).token_type = "Round"
    /\ Tok(index + 3).token_type = "Curly"

\* what C5 says of the pass apart from the captured tokens
FunctionEffect ==
    /\ Passed
    /\ NewNode.ast_type = IF Tok(index).value = S_void THEN "VoidFunctionDeceleration"
                          ELSE "FunctionDeceleration"
    /\ index' = index + 4
    /\ RegistersOne("func", Tok(index + 1))

PointerRegistersName ==
    [][(/\ pc = "loop" /\ ~json /\ NTok - index >= 3
        /\ Tok(index).token_type = "Identifier"
        /\ Tok(index + 1).value = S_star
        /\ Tok(index + 2).token_type = "Identifier") =>
         /\ Passed
         /\ NewNode.ast_type = "PointerDeceleration"
         /\ RegistersOne("var", Tok(index + 2))]_vars

\* the case of C7: JSON mode off, Identifier T (not "&"), Identifier N, and N followed
\* neither by a Curly nor by a Round then a Curly
VariableCase ==
    /\ pc = "loop" /\ ~json /\ NTok - index >= 2
    /\ Tok(index).token_type = "Identifier" /\ Tok(index).value # S_amp
    /\ Tok(index + 1).token_type = "Identifier"
    /\ ~(NTok - index >= 3 /\ Tok(index + 2).token_type = "Curly")
    /\ ~(/\ NTok - index >= 4
         /\ Tok(index + 2).token_type = "Round"
         /\ Tok(index + 3).token_type = "Curly")

\* C7: two identifiers make one VariableDeceleration node that holds N, the cursor
\* moves by 2, and exactly one variable is registered with N's value and position.
TwoIdentifiersDeclareVariable ==
    [][VariableCase =>
         /\ Passed
         /\ NewNode.ast_type = "VariableDeceleration"
         /\ \E k \in 1..Len(NewNode.tokens) : NewNode.tokens[k] = Tok(index + 1)
         /\ index' = index + 2
         /\ RegistersOne("var", Tok(index + 1))]_vars

\* two identifiers that end the buffer have been parsed into one declaration
TwoIdentifiersWitness ==
    /\ ~json /\ NTok >= 2 /\ index = NTok /\ Len(full_ast) >= 1
    /\ full_ast[Len(full_ast)].ast_type = "VariableDeceleration"
    /\ full_ast[Len(full_ast)].tokens = <<Tok(index - 2), Tok(index - 1)>>
    /\ Tok(index - 2).token_type = "Identifier"
    /\ Len(variables) >= 1
    /\ variables[Len(variables)].name = Tok(index - 1).value

\* C8: every node tagged Other holds exactly the token at the cursor, unchanged, and
\* the cursor moves by exactly 1.
OtherCarriesToken ==
    [][(Passed /\ NewNode.ast_type = "Other") =>
         /\ NewNode.tokens = <<Tok(index)>>
         /\ index' = index + 1]_vars

\* C9: whenever a pass registers a declaration, the doc string is the value of the
\* token just before the rule's anchor if there is one and it is a Comment, else "".
DocStringFromPrecedingComment ==
    [][Len(variables') # Len(variables) =>
         /\ Len(variables') = Len(variables) + 1
         /\ NewReg.desc = IF index > 0 /\ tokens[index].token_type = "Comment"
                          THEN tokens[index].value ELSE S_empty]_vars

\* a declaration at the start of the buffer has an empty doc string and a later one,
\* right after a comment, has the comment's text
DocStringWitness ==
    /\ Len(variables) = 2
    /\ variables[1].desc = S_empty /\ variables[1].column = 2
    /\ variables[2].desc = <<"/", "/", "d">>

\* the text v starts with "#include", spaces, open, p, close, and p is the shortest
\* such text on one line
IncludeForm(v, open, close, p) ==
    /\ \A k \in 1..Len(p) : p[k] # close /\ p[k] # "\n"
    /\ \E n \in 0..Len(v) :
          HasPrefix(v, S_include \o [k \in 1..n |-> " "] \o <<open>> \o p \o <<close>>)

\* every text that occurs inside v
Pieces(v) == {SubSeq(v, a, b) : a \in 1..(Len(v) + 1), b \in 0..Len(v)}

\* C10: with JSON mode off an Include token (not "&", "struct", "namespace", "impl")
\* yields one node of one token, moves the cursor by 1 and registers nothing; the
\* angle form gives Include with a String token holding the path, else the quoted
\* form gives IncludeLocal with a String token holding the path, else the node is
\* Include holding the original token.
IncludeDirective ==
    [][(/\ pc = "loop" /\ ~json /\ NTok > index
        /\ Tok(index).token_type = "Include"
        /\ Tok(index).value \notin {S_amp, S_struct, S_namespace, S_impl}) =>
         LET v == Tok(index).value
             angle == {p \in Pieces(v) : IncludeForm(v, "<", ">", p)}
             quoted == {p \in Pieces(v) : IncludeForm(v, "\"", "\"", p)}
         IN /\ Passed
            /\ Len(NewNode.tokens) = 1
            /\ index' = index + 1
            /\ variables' = variables
            /\ IF angle # {}
               THEN /\ NewNode.ast_type = "Include"
                    /\ NewNode.tokens[1].token_type = "String"
                    /\ NewNode.tokens[1].value \in angle
               ELSE IF quoted # {}
               THEN /\ NewNode.ast_type = "IncludeLocal"
                    /\ NewNode.tokens[1].token_type = "String"
                    /\ NewNode.tokens[1].value \in quoted
               ELSE /\ NewNode.ast_type = "Include"
                    /\ NewNode.tokens[1] = Tok(index)]_vars

\* a quoted include with a non-empty path has been parsed after an angle include
IncludeWitness ==
    /\ Len(full_ast) = 2 /\ ~json
    /\ full_ast[1].ast_type = "Include" /\ full_ast[1].tokens[1].value = <<"a">>
    /\ full_ast[2].ast_type = "IncludeLocal"
    /\ full_ast[2].tokens[1].token_type = "String"
    /\ full_ast[2].tokens[1].value = <<"a", "a">>
    /\ variables = << >>

\* C11: the token buffer never changes and the cursor never passes its end; when
\* parse returns the cursor equals the buffer length; a later call of parse on the
\* same parser makes no registration and returns an empty node sequence.
ParseAgainReturnsNothing ==
    [][/\ tokens' = tokens
       /\ index' <= Len(tokens')
       /\ pc' = "returned" => index' = Len(tokens')
       /\ again' =>
             /\ variables' = variables
             /\ pc' = "returned" => full_ast' = << >>]_vars

\* a later call has returned on a parser whose first call registered a declaration
ParseAgainWitness ==
    /\ again /\ pc = "returned"
    /\ full_ast = << >>
    /\ NTok >= 2 /\ index = NTok
    /\ Len(variables) >= 1

====
